---- MODULE Spec2Model ----
(***************************************************************************)
(* Model of load1n9/andromeda's clock accessor `performance.now()` and of  *)
(* the two FizzBuzz example scripts that run on it.                        *)
(*                                                                         *)
(* Timestamps are JavaScript numbers in milliseconds.  They are modelled   *)
(* as integers counting ticks of 1/TicksPerMs millisecond, so that a       *)
(* reading has a fractional part that rounding would destroy.  Strings are *)
(* sequences of one-character strings.                                     *)
(***************************************************************************)
EXTENDS Integers, Sequences, FiniteSets, TLC

VARIABLES
    clock,      \* host: current time of the host clock, in ticks
    avail,      \* host: whether the time source can produce a reading
    inc,        \* host: ticks the clock advances on each read (0: a real clock)
    reads,      \* host: reads of the clock made by the latest call of now()
    hostOut,    \* host: what the primitive produced for the latest call
    perf,       \* data properties held by the `performance` object
    out,        \* console of the program calling now() (lines printed)
    t1, t2,     \* caller: results of the previous and of the latest call
    pc,         \* caller / timed script: position in the program
    diff,       \* stub scenario: t2 - t1
    i,          \* timed script: loop variable
    start, end, \* timed script: the two readings
    iU,         \* untimed script: loop variable
    outU,       \* untimed script: console
    pcU         \* untimed script: position

vars == <<clock, avail, inc, reads, hostOut, perf, out, t1, t2, pc, diff,
          i, start, end, iU, outU, pcU>>

hostVars   == <<clock, avail, inc, reads, hostOut>>
callerVars == <<t1, t2, diff>>
timedVars  == <<i, start, end>>
untimedVars == <<iU, outU, pcU>>

(***************************************************************************)
(* Bounds of the model.                                                    *)
(***************************************************************************)
MaxClock == 6       \* the host clock is explored up to this many ticks
MaxInc == 4         \* largest per-read increment of the stub clock
MaxScriptClock == 2 \* host clock range explored while the scripts run

TicksPerMs == 4     \* ticks per millisecond: readings have quarter-ms fractions
LoopMax == 100      \* for (let i = 1; i <= 100; i++)

(***************************************************************************)
(* JavaScript values and conversions used by the scripts.                  *)
(***************************************************************************)
Digits == <<"0", "1", "2", "3", "4", "5", "6", "7", "8", "9">>

\* Number.prototype.toString for a non-negative integer: most significant
\* digit first, by repeated division by ten.
RECURSIVE NatToString(_)
NatToString(n) ==
    IF n < 10 THEN <<Digits[n + 1]>>
    ELSE NatToString(n \div 10) \o <<Digits[(n % 10) + 1]>>

\* Number to string for an integer-valued number.
IntToString(n) ==
    IF n < 0 THEN <<"-">> \o NatToString(-n) ELSE NatToString(n)

\* Fraction digits of k/TicksPerMs, 0 <= k < TicksPerMs, shortest form.
RECURSIVE FracDigits(_, _)
FracDigits(k, fuel) ==
    IF k = 0 \/ fuel = 0 THEN <<>>
    ELSE <<Digits[((k * 10) \div TicksPerMs) + 1]>>
         \o FracDigits((k * 10) % TicksPerMs, fuel - 1)

\* Number to string for a timestamp of `ticks` ticks, as a template literal
\* `${end}` formats it: sign, integer part, then the fraction if there is one.
TimeToString(ticks) ==
    LET a == IF ticks < 0 THEN -ticks ELSE ticks
        whole == a \div TicksPerMs
        frac == a % TicksPerMs
    IN  (IF ticks < 0 THEN <<"-">> ELSE <<>>)
        \o NatToString(whole)
        \o (IF frac = 0 THEN <<>> ELSE <<".">> \o FracDigits(frac, 4))

\* A JavaScript value: a string or a number.
StrVal(s) == [t |-> "string", s |-> s, n |-> 0]
NumVal(n) == [t |-> "number", s |-> <<>>, n |-> n]

\* ToBoolean: the empty string and 0 are falsy.
Truthy(v) == IF v.t = "string" THEN Len(v.s) > 0 ELSE v.n # 0

\* a || b
Or(a, b) == IF Truthy(a) THEN a ELSE b

\* The text console.log prints for one value.
Format(v) == IF v.t = "string" THEN v.s ELSE IntToString(v.n)

\* console.log(v): one more line on the console.
ConsoleLog(console, v) == Append(console, Format(v))

(***************************************************************************)
(* The host time primitive internal_now().  Its implementation is not part *)
(* of the sources at hand; it is modelled from the specification: a        *)
(* reading is the time elapsed since a fixed epoch (so it is >= 0), the    *)
(* clock is assumed monotonic, and the primitive fails with                *)
(* ClockUnavailable when the time source cannot produce a reading.         *)
(***************************************************************************)
NoOutcome == [kind |-> "none", v |-> 0, err |-> ""]
Value(v) == [kind |-> "value", v |-> v, err |-> ""]
Throw(e) == [kind |-> "throw", v |-> 0, err |-> e]

Host == [clock |-> clock, avail |-> avail, inc |-> inc, reads |-> 0]

\* One read of the host clock: the outcome and the host afterwards.  A stub
\* clock (inc > 0) advances by its increment on every read.
InternalNow(h) ==
    IF h.avail
    THEN [outcome |-> Value(h.clock),
          host |-> [h EXCEPT !.clock = @ + h.inc, !.reads = @ + 1]]
    ELSE [outcome |-> Throw("ClockUnavailable"),
          host |-> [h EXCEPT !.reads = @ + 1]]

(***************************************************************************)
(* Variants of now() with a slip in them, used to show that the checked    *)
(* properties depend on the code of now().                                 *)
(***************************************************************************)
\* return Math.floor(internal_now())
NowRounded(h, p, console) ==
    LET r == InternalNow(h)
    IN  [ret |-> IF r.outcome.kind = "value"
                 THEN Value(r.outcome.v - (r.outcome.v % TicksPerMs))
                 ELSE r.outcome,
         host |-> r.host, perf |-> p, console |-> console]

\* try { return internal_now() } catch { return 0 }
NowDefaultsToZero(h, p, console) ==
    LET r == InternalNow(h)
    IN  [ret |-> IF r.outcome.kind = "throw" THEN Value(0) ELSE r.outcome,
         host |-> r.host, perf |-> p, console |-> console]

\* returns only the sub-millisecond part of the reading
NowWrapped(h, p, console) ==
    LET r == InternalNow(h)
    IN  [ret |-> IF r.outcome.kind = "value"
                 THEN Value(r.outcome.v % TicksPerMs)
                 ELSE r.outcome,
         host |-> r.host, perf |-> p, console |-> console]

\* return internal_now() - origin, with an origin one millisecond ahead
NowOffset(h, p, console) ==
    LET r == InternalNow(h)
    IN  [ret |-> IF r.outcome.kind = "value"
                 THEN Value(r.outcome.v - TicksPerMs)
                 ELSE r.outcome,
         host |-> r.host, perf |-> p, console |-> console]

\* internal_now(); return internal_now()
NowReadsTwice(h, p, console) ==
    LET r1 == InternalNow(h)
        r2 == InternalNow(r1.host)
    IN  [ret |-> r2.outcome, host |-> r2.host, perf |-> p, console |-> console]

\* const t = internal_now(); console.log(t); return t   (the doc comment's
\* example moved into the accessor)
NowLogs(h, p, console) ==
    LET r == InternalNow(h)
    IN  [ret |-> r.outcome, host |-> r.host, perf |-> p,
         console |-> IF r.outcome.kind = "value"
                     THEN Append(console, TimeToString(r.outcome.v))
                     ELSE console]

(***************************************************************************)
(* performance.now(): return internal_now().  `h` is the host, `p` the     *)
(* data properties of the performance object, `console` the lines printed  *)
(* so far; the result carries the returned (or thrown) outcome and all     *)
(* three afterwards.                                                       *)
(***************************************************************************)
now(h, p, console) ==
    LET r == InternalNow(h)
    IN  [ret |-> r.outcome, host |-> r.host, perf |-> p, console |-> console]

(***************************************************************************)
(* Specification Spec: a caller that calls now() again and again, keeping  *)
(* the previous result in t1 and the latest in t2, while the host clock    *)
(* advances and its time source comes and goes.                            *)
(***************************************************************************)
ScriptsIdle ==
    /\ i = 0 /\ start = NoOutcome /\ end = NoOutcome
    /\ iU = 0 /\ outU = <<>> /\ pcU = "idle"

Init ==
    /\ clock = 0 /\ avail = TRUE /\ inc = 0 /\ reads = 0
    /\ hostOut = NoOutcome
    /\ perf = <<>> /\ out = <<>>
    /\ t1 = NoOutcome /\ t2 = NoOutcome /\ diff = 0
    /\ pc = "caller"
    /\ ScriptsIdle

\* Time passes on the host: the clock moves forward by d ticks.
Tick(d) ==
    /\ clock + d <= MaxClock
    /\ clock' = clock + d
    /\ UNCHANGED <<avail, inc, reads, hostOut, perf, out, pc>>
    /\ UNCHANGED <<callerVars, timedVars, untimedVars>>

\* The host time source becomes unavailable.
HostDown ==
    /\ avail
    /\ avail' = FALSE
    /\ UNCHANGED <<clock, inc, reads, hostOut, perf, out, pc>>
    /\ UNCHANGED <<callerVars, timedVars, untimedVars>>

\* The host time source becomes available again.
HostUp ==
    /\ ~avail
    /\ avail' = TRUE
    /\ UNCHANGED <<clock, inc, reads, hostOut, perf, out, pc>>
    /\ UNCHANGED <<callerVars, timedVars, untimedVars>>

\* t2 = performance.now(), the caller keeping in t1 either the reading it
\* held already or the one it got last.
CallNow(keep) ==
    /\ pc = "caller"
    /\ LET r == now(Host, perf, out)
       IN  /\ t1' = (IF keep THEN t1 ELSE t2)
           /\ t2' = r.ret
           /\ hostOut' = InternalNow(Host).outcome
           /\ clock' = r.host.clock
           /\ reads' = r.host.reads
           /\ perf' = r.perf
           /\ out' = r.console
    /\ UNCHANGED <<avail, inc, pc, diff, timedVars, untimedVars>>

Next ==
    \/ \E d \in 1..MaxClock : Tick(d)
    \/ HostDown
    \/ HostUp
    \/ \E keep \in BOOLEAN : CallNow(keep)

Spec == Init /\ [][Next]_vars

(***************************************************************************)
(* Properties of the accessor, under Spec.                                 *)
(***************************************************************************)
\* C1: of any two readings the caller got from now(), t1 from an earlier
\* call and t2 from a later one, the later is not smaller: t2 >= t1.
C1_Monotonic ==
    (t1.kind = "value" /\ t2.kind = "value") => t2.v >= t1.v

\* Two readings with time having passed between them.
C1_Witness ==
    t1.kind = "value" /\ t2.kind = "value" /\ t2.v > t1.v /\ reads = 1

\* C2: when the host primitive fails, now() fails with that same failure;
\* it returns no substituted value and it does not read the clock again.
C2_FailurePropagates ==
    hostOut.kind = "throw" =>
        /\ t2.kind = "throw"
        /\ t2.err = hostOut.err
        /\ reads = 1

\* A call made while the time source was unavailable.
C2_Witness ==
    hostOut.kind = "throw" /\ t2.kind = "throw" /\ t2.err = "ClockUnavailable"

\* C3: now() returns exactly the reading the host primitive produced for
\* the call, fraction included.
C3_PassThrough ==
    hostOut.kind = "value" => (t2.kind = "value" /\ t2.v = hostOut.v)

\* A reading with a sub-millisecond fraction came back unchanged.
C3_Witness ==
    /\ hostOut.kind = "value" /\ t2.kind = "value"
    /\ t2.v = hostOut.v /\ t2.v % TicksPerMs # 0

\* C5: every value now() returns is >= 0.
C5_NonNegative ==
    /\ t1.kind = "value" => t1.v >= 0
    /\ t2.kind = "value" => t2.v >= 0

\* The smallest reading, taken at the epoch itself.
C5_Witness ==
    t2.kind = "value" /\ t2.v = 0 /\ reads = 1

(***************************************************************************)
(* Specification SpecStub: the elapsed-time scenario.  The host clock is a *)
(* stub that starts anywhere and advances by a fixed increment on each     *)
(* read; the program is  t1 = now(); <no-op body>; t2 = now(); t2 - t1.    *)
(***************************************************************************)
InitStub ==
    /\ clock \in 0..MaxClock /\ inc \in 1..MaxInc
    /\ avail = TRUE /\ reads = 0
    /\ hostOut = NoOutcome
    /\ perf = <<>> /\ out = <<>>
    /\ t1 = NoOutcome /\ t2 = NoOutcome /\ diff = 0
    /\ pc = "stub_t1"
    /\ ScriptsIdle

\* t1 = performance.now()
StubFirst ==
    /\ pc = "stub_t1"
    /\ LET r == now(Host, perf, out)
       IN  /\ t1' = r.ret
           /\ hostOut' = InternalNow(Host).outcome
           /\ clock' = r.host.clock
           /\ reads' = r.host.reads
           /\ perf' = r.perf
           /\ out' = r.console
    /\ pc' = "stub_body"
    /\ UNCHANGED <<avail, inc, t2, diff, timedVars, untimedVars>>

\* the no-op body between the two calls
StubBody ==
    /\ pc = "stub_body"
    /\ pc' = "stub_t2"
    /\ UNCHANGED <<hostVars, perf, out, callerVars, timedVars, untimedVars>>

\* t2 = performance.now()
StubSecond ==
    /\ pc = "stub_t2"
    /\ LET r == now(Host, perf, out)
       IN  /\ t2' = r.ret
           /\ hostOut' = InternalNow(Host).outcome
           /\ clock' = r.host.clock
           /\ reads' = r.host.reads
           /\ perf' = r.perf
           /\ out' = r.console
    /\ pc' = "stub_diff"
    /\ UNCHANGED <<avail, inc, t1, diff, timedVars, untimedVars>>

\* t2 - t1
StubDiff ==
    /\ pc = "stub_diff"
    /\ diff' = t2.v - t1.v
    /\ pc' = "stub_done"
    /\ UNCHANGED <<hostVars, perf, out, t1, t2, timedVars, untimedVars>>

NextStub == StubFirst \/ StubBody \/ StubSecond \/ StubDiff

SpecStub == InitStub /\ [][NextStub]_vars

\* C4: with a stub clock advancing by inc on each read, two calls of now()
\* around a no-op body differ by exactly inc, each call having read the
\* clock once.
C4_ElapsedIsIncrement ==
    /\ pc \in {"stub_body", "stub_t2", "stub_diff", "stub_done"} => reads = 1
    /\ pc = "stub_done" => diff = inc

\* The scenario ran to its end with an increment that is not a whole
\* number of milliseconds.
C4_Witness ==
    pc = "stub_done" /\ diff = inc /\ inc % TicksPerMs # 0 /\ t1.v > 0

(***************************************************************************)
(* The timed script, examples/fizzbuzz.ts.                                 *)
(***************************************************************************)
\* if (i % 3 === 0) { output += "Fizz"; }
Fizz(n, output) ==
    IF n % 3 = 0 THEN output \o <<"F", "i", "z", "z">> ELSE output

\* A slip: `else if`, so that Buzz is added only to an empty output.
BuzzElseIf(n, output) ==
    IF n % 5 = 0 /\ output = <<>> THEN output \o <<"B", "u", "z", "z">>
    ELSE output

\* if (i % 5 === 0) { output += "Buzz"; }
Buzz(n, output) ==
    IF n % 5 = 0 THEN output \o <<"B", "u", "z", "z">> ELSE output

\* A slip: `if (output === undefined)`, which an empty string never is.
FallbackNever(n, output) == output

\* if (output === "") { output = i.toString(); }
Fallback(n, output) ==
    IF output = <<>> THEN IntToString(n) ELSE output

\* The value of `output` at console.log(output), line 14.
Label(n) == Fallback(n, Buzz(n, Fizz(n, <<>>)))

\* A slip: `start - end`.
ElapsedSwapped(e, s) == s - e

\* end - start
Elapsed(e, s) == e - s

\* `End: ${end}`
EndLine(e) == <<"E", "n", "d", ":", " ">> \o TimeToString(e)

\* `Execution time: ${end - start}ms`
TimeLine(d) ==
    <<"E", "x", "e", "c", "u", "t", "i", "o", "n", " ",
      "t", "i", "m", "e", ":", " ">> \o TimeToString(d) \o <<"m", "s">>

\* const start = performance.now();   (an exception ends the script)
TimedStart ==
    /\ pc = "t_start"
    /\ LET r == now(Host, perf, out)
       IN  /\ start' = r.ret
           /\ hostOut' = InternalNow(Host).outcome
           /\ clock' = r.host.clock
           /\ reads' = r.host.reads
           /\ perf' = r.perf
           /\ out' = r.console
           /\ pc' = IF r.ret.kind = "throw" THEN "t_thrown" ELSE "t_for"
    /\ UNCHANGED <<avail, inc, callerVars, i, end, untimedVars>>

\* for (let i = 1; ...
TimedFor ==
    /\ pc = "t_for"
    /\ i' = 1
    /\ pc' = "t_loop"
    /\ UNCHANGED <<hostVars, perf, out, callerVars, start, end, untimedVars>>

\* One iteration of the loop, lines 3 to 15.
TimedIter ==
    /\ pc = "t_loop"
    /\ i <= LoopMax
    /\ out' = ConsoleLog(out, StrVal(Label(i)))
    /\ i' = i + 1
    /\ UNCHANGED <<hostVars, perf, callerVars, pc, start, end, untimedVars>>

\* The loop condition fails; const end = performance.now();
TimedEnd ==
    /\ pc = "t_loop"
    /\ ~(i <= LoopMax)
    /\ LET r == now(Host, perf, out)
       IN  /\ end' = r.ret
           /\ hostOut' = InternalNow(Host).outcome
           /\ clock' = r.host.clock
           /\ reads' = r.host.reads
           /\ perf' = r.perf
           /\ out' = r.console
           /\ pc' = IF r.ret.kind = "throw" THEN "t_thrown" ELSE "t_print_end"
    /\ UNCHANGED <<avail, inc, callerVars, i, start, untimedVars>>

\* console.log(`End: ${end}`);
TimedPrintEnd ==
    /\ pc = "t_print_end"
    /\ out' = Append(out, EndLine(end.v))
    /\ pc' = "t_print_time"
    /\ UNCHANGED <<hostVars, perf, callerVars, timedVars, untimedVars>>

\* console.log(`Execution time: ${end - start}ms`);
TimedPrintTime ==
    /\ pc = "t_print_time"
    /\ diff' = Elapsed(end.v, start.v)
    /\ out' = Append(out, TimeLine(Elapsed(end.v, start.v)))
    /\ pc' = "t_done"
    /\ UNCHANGED <<hostVars, perf, t1, t2, timedVars, untimedVars>>

Timed == TimedStart \/ TimedFor \/ TimedIter \/ TimedEnd \/ TimedPrintEnd \/ TimedPrintTime

(***************************************************************************)
(* The untimed script (bench/fizzbuzz.ts).                                 *)
(***************************************************************************)
\* if (i % 3 === 0) { output += "Fizz"; }
FizzU(n, output) ==
    IF n % 3 = 0 THEN output \o <<"F", "i", "z", "z">> ELSE output

\* if (i % 5 === 0) { output += "Buzz"; }
BuzzU(n, output) ==
    IF n % 5 = 0 THEN output \o <<"B", "u", "z", "z">> ELSE output

\* A slip: `output ?? i`, which keeps the empty string.
PrintedNullish(n) == StrVal(BuzzU(n, FizzU(n, <<>>)))

\* The value handed to console.log, line 14: output || i
Printed(n) == Or(StrVal(BuzzU(n, FizzU(n, <<>>))), NumVal(n))

\* One iteration of the loop, lines 6 to 15.
UntimedIter ==
    /\ pcU = "u_loop"
    /\ iU <= LoopMax
    /\ outU' = ConsoleLog(outU, Printed(iU))
    /\ iU' = iU + 1
    /\ UNCHANGED <<hostVars, perf, out, callerVars, pc, timedVars, pcU>>

\* The loop condition fails: the script ends.
UntimedExit ==
    /\ pcU = "u_loop"
    /\ ~(iU <= LoopMax)
    /\ pcU' = "u_done"
    /\ UNCHANGED <<hostVars, perf, out, callerVars, pc, timedVars, iU, outU>>

Untimed == UntimedIter \/ UntimedExit

(***************************************************************************)
(* Specification SpecScripts: each script runs once, to completion, while  *)
(* time passes on the host.                                                *)
(***************************************************************************)
InitScripts ==
    /\ clock = 0 /\ avail = TRUE /\ inc = 0 /\ reads = 0
    /\ hostOut = NoOutcome
    /\ perf = <<>> /\ out = <<>>
    /\ t1 = NoOutcome /\ t2 = NoOutcome /\ diff = 0
    /\ pc = "t_start"
    /\ i = 0 /\ start = NoOutcome /\ end = NoOutcome
    /\ iU = 1 /\ outU = <<>> /\ pcU = "u_loop"

\* Time passes on the host while a script runs.
TickScript ==
    /\ clock < MaxScriptClock
    /\ clock' = clock + 1
    /\ UNCHANGED <<avail, inc, reads, hostOut, perf, out, pc>>
    /\ UNCHANGED <<callerVars, timedVars, untimedVars>>

NextScripts == Timed \/ Untimed \/ TickScript

\* A runtime runs a script to completion: its next statement is executed.
SpecScripts ==
    InitScripts /\ [][NextScripts]_vars /\ WF_vars(Timed) /\ WF_vars(Untimed)

(***************************************************************************)
(* Properties of the scripts, under SpecScripts.                           *)
(***************************************************************************)
FizzText == <<"F", "i", "z", "z">>
BuzzText == <<"B", "u", "z", "z">>
FizzBuzzText == <<"F", "i", "z", "z", "B", "u", "z", "z">>

Expected15 ==
    << <<"1">>, <<"2">>, FizzText, <<"4">>, BuzzText,
       FizzText, <<"7">>, <<"8">>, FizzText, BuzzText,
       <<"1", "1">>, FizzText, <<"1", "3">>, <<"1", "4">>, FizzBuzzText >>

Min(a, b) == IF a < b THEN a ELSE b

\* The number a string of decimal digits denotes (-1 for any other string).
RECURSIVE DecValue(_)
DecValue(s) ==
    IF s = <<>> THEN 0
    ELSE LET d == {k \in 1..10 : Digits[k] = s[Len(s)]}
             rest == DecValue(SubSeq(s, 1, Len(s) - 1))
         IN  IF d = {} \/ rest < 0 THEN -1
             ELSE rest * 10 + ((CHOOSE k \in d : TRUE) - 1)

\* s is the decimal representation of the positive integer n: digits only,
\* at least one, no leading zero, denoting n.
IsDecimalOf(s, n) ==
    /\ Len(s) > 0
    /\ s[1] # "0"
    /\ DecValue(s) = n

\* C6: a call of now() changes nothing of the program but the variable its
\* result is assigned to: it prints nothing, the performance object keeps
\* no data between calls, and the loop state of both scripts is untouched.
C6_NoSideEffect ==
    [][((pc = "t_start" /\ pc' # "t_start") \/ (pc = "t_loop" /\ pc' # "t_loop"))
          => /\ out' = out
             /\ perf = <<>> /\ perf' = perf
             /\ i' = i
             /\ avail' = avail /\ inc' = inc
             /\ UNCHANGED <<callerVars, untimedVars>>]_vars

\* The state right after the second call of now(): all 100 lines printed,
\* nothing more.
C6_Witness ==
    pc = "t_print_end" /\ end.kind = "value" /\ Len(out) = LoopMax /\ perf = <<>>

\* C7: the first 15 lines either script prints are
\* 1, 2, Fizz, 4, Buzz, Fizz, 7, 8, Fizz, Buzz, 11, Fizz, 13, 14, FizzBuzz.
C7_First15 ==
    /\ \A k \in 1..Min(Len(out), 15) : out[k] = Expected15[k]
    /\ \A k \in 1..Min(Len(outU), 15) : outU[k] = Expected15[k]

\* Both scripts have printed their 15th line.
C7_Witness ==
    /\ Len(out) >= 15 /\ Len(outU) >= 15
    /\ out[15] = FizzBuzzText /\ outU[15] = FizzBuzzText

\* C8: for i divisible by neither 3 nor 5 the line printed is the decimal
\* representation of i: digits only, no leading zero, not empty.
C8_DecimalFallback ==
    /\ \A k \in 1..Min(Len(out), LoopMax) :
           (k % 3 # 0 /\ k % 5 # 0) => IsDecimalOf(out[k], k)
    /\ \A k \in 1..Len(outU) :
           (k % 3 # 0 /\ k % 5 # 0) => IsDecimalOf(outU[k], k)

\* Both scripts have printed the line of i = 98, a two-digit number that is
\* a multiple of neither 3 nor 5.
C8_Witness ==
    /\ Len(out) >= 98 /\ out[98] = <<"9", "8">>
    /\ Len(outU) >= 98 /\ outU[98] = <<"9", "8">>

\* C9: in the timed script start is read before the first line is printed,
\* end is read after the 100th, and the execution time reported, end -
\* start, is >= 0.
C9_TimingNonNegative ==
    /\ Len(out) > 0 => start.kind = "value"
    /\ end.kind # "none" => Len(out) >= LoopMax
    /\ pc = "t_done" =>
          /\ diff >= 0
          /\ diff = end.v - start.v
          /\ out[LoopMax + 2] = TimeLine(diff)

\* The timed script ended, time having passed on the host during the loop.
C9_Witness ==
    pc = "t_done" /\ diff > 0 /\ Len(out) = LoopMax + 2

C10_LineByLine ==
    /\ \A k \in 1..Min(Min(Len(out), Len(outU)), LoopMax) : out[k] = outU[k]
    /\ pc = "t_loop" => Len(out) = i - 1
    /\ pcU = "u_loop" => Len(outU) = iU - 1
    /\ pcU = "u_done" => Len(outU) = LoopMax
    /\ pc \in {"t_print_end", "t_print_time"} => Len(out) >= LoopMax
    /\ pc = "t_done" =>
          /\ Len(out) = LoopMax + 2
          /\ out[LoopMax + 1] = EndLine(end.v)
          /\ out[LoopMax + 2] = TimeLine(end.v - start.v)

BothDone == pc = "t_done" /\ pcU = "u_done"

====
